---- MODULE Spec2Model ----
(***************************************************************************)
(* TransientObjectContext (src/abstraction/transient.rs): an abstraction   *)
(* over the TPM's volatile object slots.  Every driver call of every       *)
(* public operation is one step; each driver call may succeed or fail.     *)
(* The driver (crate::Context) is the external collaborator: it is         *)
(* modelled as a slot table, a handle allocator and the flags of the       *)
(* active session, which it resets after every module command.             *)
(***************************************************************************)
EXTENDS Integers, Sequences, FiniteSets, TLC

VARIABLES
    pc,               \* position of the running operation, "start", "idle" or "failed"
    slots,            \* driver: volatile slot table, handle -> loaded object
    sessAttrs,        \* driver: attribute flags of the active session
    session,          \* context.sessions().0
    root_key_handle,  \* TransientObjectContext.root_key_handle
    loc,              \* local variables of the running operation
    calls,            \* driver calls issued by the running operation, in order
    result,           \* what the last operation returned
    blobs,            \* key contexts the caller holds
    sigs,             \* signatures the caller holds
    nops              \* number of public operations called so far

vars == << pc, slots, sessAttrs, session, root_key_handle,
           loc, calls, result, blobs, sigs, nops >>

-----------------------------------------------------------------------------
(* Bounds of the exploration *)

MaxOps == 2

(* Program constants *)

MaxAuthSize == 32
PkBufferSize == 512
ESYS_TR_NONE == 0

(* Inputs the caller may supply *)

KeySizeInputs == {1024, 2048, 3072}
AuthSizeInputs == {0, MaxAuthSize, MaxAuthSize + 1}
OwnerAuthInputs == {<< >>, <<1>>}
DigestInputs == {<<11>>, <<22>>}

(* a byte string of length len: fill ... fill last *)
KeyBytes(len, fill, last) == [i \in 1..len |-> IF i = len THEN last ELSE fill]

PublicKeyInputs ==
    { KeyBytes(128, 7, 0), KeyBytes(128, 0, 9), KeyBytes(256, 7, 0), KeyBytes(129, 7, 9) }

(* bytes the module's random source may return *)
RandomFills == {17, 42}

-----------------------------------------------------------------------------
(* Objects of the module and values exchanged with the caller *)

Obj(kind, alg, size, buffer, priv, auth) ==
    [kind |-> kind, alg |-> alg, size |-> size, buffer |-> buffer,
     priv |-> priv, auth |-> auth]

(* a key context as the caller holds it: the blob, and for an imported key
   the bytes the caller imported *)
Held(ctx, key) == [ctx |-> ctx, key |-> key]

NoObj == Obj("none", "none", 0, << >>, FALSE, << >>)
SessionObj == Obj("session", "none", 0, << >>, FALSE, << >>)

(* lines 191-192: the bytes copied into a zeroed buffer of 512 *)
PkBuffer(public_key) ==
    [i \in 1..PkBufferSize |-> IF i <= Len(public_key) THEN public_key[i] ELSE 0]

(* the modulus the module generates for a new key of key_size bits *)
NewModulus(key_size) == PkBuffer(KeyBytes(key_size \div 8, 195, 1))

(* key contexts saved by earlier sessions, which the caller still holds: a
   2048-bit signing key made by create_rsa_signing_key(2048, 32), and the
   public part of an ECC key and a keyed-hash object made by other programs *)
EarlierBlobs ==
    { Held(Obj("key", "rsa", 256, NewModulus(2048), TRUE, KeyBytes(32, 17, 17)), << >>),
      Held(Obj("key", "ecc", 32, << >>, FALSE, << >>), << >>),
      Held(Obj("key", "keyedhash", 32, << >>, FALSE, << >>), << >>) }

NoSig == [scheme |-> "none", signer |-> << >>, digest |-> << >>]

(* signatures the caller may hold that no sign of this session produced: one
   in a scheme the wire structure has no form for, and one no key has made *)
SignatureInputs ==
    { [scheme |-> "unsupported", signer |-> << >>, digest |-> <<11>>],
      [scheme |-> "rsassa", signer |-> << >>, digest |-> <<11>>] }

(* an auth value that is not the key's *)
WrongAuth == <<9>>

LocInit ==
    [op |-> "none", key_size |-> 0, auth_size |-> 0, key_auth |-> << >>, owner_auth |-> << >>,
     created |-> NoObj, public |-> NoObj, key_handle |-> ESYS_TR_NONE,
     key_context |-> NoObj, new_session |-> ESYS_TR_NONE,
     e |-> "none", key |-> << >>, digest |-> << >>, signature |-> NoSig,
     out_sig |-> NoSig, loaded |-> ESYS_TR_NONE, arg |-> Held(NoObj, << >>),
     old_session |-> ESYS_TR_NONE, pre |-> 0]

NoResult ==
    [op |-> "none", ok |-> FALSE, err |-> "none", blob |-> NoObj, auth |-> << >>,
     key |-> << >>, sig |-> NoSig, ticket |-> FALSE, loaded |-> ESYS_TR_NONE,
     arg |-> Held(NoObj, << >>), key_size |-> 0, auth_size |-> 0,
     digest |-> << >>, signature |-> NoSig]

Occupied == DOMAIN slots

-----------------------------------------------------------------------------
(* The driver *)

(* the record of one driver call: command, handle it names, outcome, and the
   flags of the active session at the moment the call is issued *)
Call(cmd, h, ok) == [cmd |-> cmd, h |-> h, ok |-> ok, attrs |-> sessAttrs]

(* every module command other than the attribute setter clears the flags *)
Issue(cmd, h, ok) ==
    /\ calls' = Append(calls, Call(cmd, h, ok))
    /\ sessAttrs' = {}

(* the handle the module issues next: the lowest one that is free *)
nextHandle ==
    CHOOSE h \in 1..(Cardinality(Occupied) + 1) :
        h \notin Occupied /\ \A g \in 1..(h - 1) : g \in Occupied

Load(h, obj) == [x \in Occupied \cup {h} |-> IF x = h THEN obj ELSE slots[x]]
Flush(h) == [x \in Occupied \ {h} |-> slots[x]]

(* return to the caller *)
Return(r) ==
    /\ result' = r
    /\ loc' = LocInit
    /\ pc' = "idle"

Err(op, e) ==
    [NoResult EXCEPT !.op = op, !.err = e, !.loaded = loc.loaded, !.arg = loc.arg,
                     !.digest = loc.digest, !.signature = loc.signature]

-----------------------------------------------------------------------------
(* TransientObjectContext::new *)

(* the size checks without the key-size check of lines 80-83 *)
NewParamsValid_NoKeySizeCheck(root_key_size, root_key_auth_size) ==
    ~(root_key_auth_size > MaxAuthSize)

(* lines 77-83: the size checks *)
NewParamsValid(root_key_size, root_key_auth_size) ==
    /\ ~(root_key_auth_size > MaxAuthSize)
    /\ ~(root_key_size # 1024 /\ root_key_size # 2048)

New(root_key_size, root_key_auth_size, owner_hierarchy_auth) ==
    /\ pc = "start"
    /\ IF NewParamsValid(root_key_size, root_key_auth_size)
       THEN /\ pc' = "new_84"
            /\ loc' = [LocInit EXCEPT !.op = "new", !.key_size = root_key_size,
                                      !.auth_size = root_key_auth_size,
                                      !.owner_auth = owner_hierarchy_auth]
            /\ UNCHANGED result
       ELSE /\ pc' = "failed"
            /\ result' = Err("new", "WrongParamSize")
            /\ UNCHANGED loc
    /\ UNCHANGED << slots, sessAttrs, session, root_key_handle,
                    calls, blobs, sigs, nops >>

FailNew(e) ==
    /\ pc' = "failed"
    /\ result' = Err("new", e)
    /\ loc' = LocInit

(* line 84: Context::new(tcti)?, which opens the driver's default session *)
New_Context ==
    /\ pc = "new_84"
    /\ \E ok \in BOOLEAN :
        /\ calls' = Append(calls, Call("Context::new", ESYS_TR_NONE, ok))
        /\ IF ok
           THEN /\ slots' = Load(nextHandle, SessionObj)
                /\ session' = nextHandle
                /\ pc' = IF loc.auth_size > 0 THEN "new_86"
                         ELSE IF loc.owner_auth # << >> THEN "new_91" ELSE "new_94"
                /\ UNCHANGED << loc, result >>
           ELSE /\ FailNew("E_context_new")
                /\ UNCHANGED << slots, session >>
    /\ UNCHANGED << sessAttrs, root_key_handle, blobs, sigs, nops >>

(* line 86: context.get_random(root_key_auth_size)? *)
New_GetRandom ==
    /\ pc = "new_86"
    /\ \E ok \in BOOLEAN, r \in RandomFills :
        /\ Issue("get_random", ESYS_TR_NONE, ok)
        /\ IF ok
           THEN /\ loc' = [loc EXCEPT !.key_auth = KeyBytes(loc.auth_size, r, r)]
                /\ pc' = IF loc.owner_auth # << >> THEN "new_91" ELSE "new_94"
                /\ UNCHANGED result
           ELSE FailNew("E_get_random")
    /\ UNCHANGED << slots, session, root_key_handle, blobs, sigs, nops >>

(* line 91: context.set_handle_auth(ESYS_TR_RH_OWNER, owner_hierarchy_auth)? *)
New_SetHandleAuth ==
    /\ pc = "new_91"
    /\ \E ok \in BOOLEAN :
        /\ Issue("set_handle_auth", ESYS_TR_NONE, ok)
        /\ IF ok
           THEN /\ pc' = "new_94"
                /\ UNCHANGED << loc, result >>
           ELSE FailNew("E_set_handle_auth")
    /\ UNCHANGED << slots, session, root_key_handle, blobs, sigs, nops >>

(* lines 94-101: context.create_primary_key(...)? *)
New_CreatePrimaryKey ==
    /\ pc = "new_94"
    /\ \E ok \in BOOLEAN :
        /\ Issue("create_primary_key", ESYS_TR_NONE, ok)
        /\ IF ok
           THEN /\ slots' = Load(nextHandle,
                                 Obj("primary", "rsa", loc.key_size \div 8, << >>,
                                     TRUE, << >>))
                /\ loc' = [loc EXCEPT !.key_handle = nextHandle]
                /\ pc' = "new_103"
                /\ UNCHANGED result
           ELSE /\ FailNew("E_create_primary_key")
                /\ UNCHANGED slots
    /\ UNCHANGED << session, root_key_handle, blobs, sigs, nops >>

(* lines 103-111: context.start_auth_session(...)? *)
New_StartAuthSession ==
    /\ pc = "new_103"
    /\ \E ok \in BOOLEAN :
        /\ Issue("start_auth_session", loc.key_handle, ok)
        /\ IF ok
           THEN /\ slots' = Load(nextHandle, SessionObj)
                /\ loc' = [loc EXCEPT !.new_session = nextHandle]
                /\ pc' = "new_112"
                /\ UNCHANGED result
           ELSE /\ FailNew("E_start_auth_session")
                /\ UNCHANGED slots
    /\ UNCHANGED << session, root_key_handle, blobs, sigs, nops >>

(* the old session read after the switch of line 113 instead of before it *)
OldSession_AfterSwitch == loc.new_session

(* line 112: let (old_session, _, _) = context.sessions(), read before the
   sessions are switched on line 113 *)
OldSession == session

(* the old session read, the sessions not switched *)
New_SetSessions_NoSwitch ==
    /\ pc = "new_112"
    /\ loc' = [loc EXCEPT !.old_session = OldSession]
    /\ pc' = "new_114"
    /\ UNCHANGED << slots, sessAttrs, session, root_key_handle, calls, result,
                    blobs, sigs, nops >>

(* lines 112-113: read the old session, make the new one the active one *)
New_SetSessions ==
    /\ pc = "new_112"
    /\ loc' = [loc EXCEPT !.old_session = OldSession]
    /\ session' = loc.new_session
    /\ pc' = "new_114"
    /\ UNCHANGED << slots, sessAttrs, root_key_handle, calls, result,
                    blobs, sigs, nops >>

(* lines 114-118: flush the old session, build the context *)
New_FlushOldSession ==
    /\ pc = "new_114"
    /\ \E ok \in BOOLEAN :
        /\ Issue("flush_context", loc.old_session, ok)
        /\ IF ok
           THEN /\ slots' = Flush(loc.old_session)
                /\ root_key_handle' = loc.key_handle
                /\ Return([NoResult EXCEPT !.op = "new", !.ok = TRUE])
           ELSE /\ FailNew("E_flush_context")
                /\ UNCHANGED << slots, root_key_handle >>
    /\ UNCHANGED << session, blobs, sigs, nops >>

-----------------------------------------------------------------------------
(* Steps shared by the public operations *)

(* lines 338-340: the flags set_session_attrs asserts *)
SessionAttr == {"decrypt", "encrypt"}

(* a public operation is entered from the caller *)
Enter(first, l) ==
    /\ pc = "idle"
    /\ nops < MaxOps
    /\ nops' = nops + 1
    /\ calls' = << >>
    /\ result' = NoResult
    /\ loc' = [l EXCEPT !.pre = Cardinality(Occupied)]
    /\ pc' = first
    /\ UNCHANGED << slots, sessAttrs, session, root_key_handle,
                    blobs, sigs >>

(* a public operation that fails its size checks: nothing else happens *)
Reject(op) ==
    /\ pc = "idle"
    /\ nops < MaxOps
    /\ nops' = nops + 1
    /\ calls' = << >>
    /\ Return(Err(op, "WrongParamSize"))
    /\ UNCHANGED << slots, sessAttrs, session, root_key_handle,
                    blobs, sigs >>

(* lines 336-343: self.set_session_attrs()? at the call site `from` *)
SetSessionAttrs(op, from, to) ==
    /\ pc = from
    /\ \E ok \in BOOLEAN :
        /\ calls' = Append(calls, Call("set_session_attr", session, ok))
        /\ IF ok
           THEN /\ sessAttrs' = SessionAttr
                /\ pc' = to
                /\ UNCHANGED << loc, result >>
           ELSE /\ Return(Err(op, "E_set_session_attr"))
                /\ UNCHANGED sessAttrs
    /\ UNCHANGED << slots, session, root_key_handle, blobs, sigs, nops >>

(* the closure keeping the original error whatever the flush returns *)
OrElseError_KeepOriginal(e, flush_ok) == e

(* the error `.or_else(|e| { flush_context(key_handle)?; Err(e) })` yields *)
OrElseError(e, flush_ok) == IF flush_ok THEN e ELSE "E_flush_context"

(* the closure returning the error without flushing the handle *)
OrElseFlush_NoFlush(op, from) ==
    /\ pc = from
    /\ Return(Err(op, loc.e))
    /\ UNCHANGED << slots, sessAttrs, session, root_key_handle, calls, blobs, sigs, nops >>

(* the closure flushing the root key instead of the loaded handle *)
OrElseFlush_FlushesRoot(op, from) ==
    /\ pc = from
    /\ \E ok \in BOOLEAN :
        /\ Issue("flush_context", root_key_handle, ok)
        /\ slots' = IF ok THEN Flush(root_key_handle) ELSE slots
        /\ Return(Err(op, OrElseError(loc.e, ok)))
    /\ UNCHANGED << session, root_key_handle, blobs, sigs, nops >>

(* the closure flushing the loaded handle a second time after the first *)
OrElseFlush_Twice(op, from) ==
    /\ pc = from
    /\ \E ok \in BOOLEAN, again \in BOOLEAN :
        /\ calls' = calls \o << Call("flush_context", loc.key_handle, ok),
                                 Call("flush_context", loc.key_handle, again) >>
        /\ sessAttrs' = {}
        /\ slots' = IF ok \/ again THEN Flush(loc.key_handle) ELSE slots
        /\ Return(Err(op, OrElseError(loc.e, ok /\ again)))
    /\ UNCHANGED << session, root_key_handle, blobs, sigs, nops >>

(* the closure of `.or_else(...)`: flush the loaded handle, then fail *)
OrElseFlush(op, from) ==
    /\ pc = from
    /\ \E ok \in BOOLEAN :
        /\ Issue("flush_context", loc.key_handle, ok)
        /\ slots' = IF ok THEN Flush(loc.key_handle) ELSE slots
        /\ Return(Err(op, OrElseError(loc.e, ok)))
    /\ UNCHANGED << session, root_key_handle, blobs, sigs, nops >>

(* a driver call that loads an object into a slot and yields its handle *)
LoadStep(op, from, cmd, obj, to) ==
    /\ pc = from
    /\ \E ok \in BOOLEAN :
        /\ Issue(cmd, IF ok THEN nextHandle ELSE ESYS_TR_NONE, ok)
        /\ IF ok
           THEN /\ slots' = Load(nextHandle, obj)
                /\ loc' = [loc EXCEPT !.key_handle = nextHandle, !.loaded = nextHandle]
                /\ pc' = to
                /\ UNCHANGED result
           ELSE /\ Return(Err(op, "E_" \o cmd))
                /\ UNCHANGED slots
    /\ UNCHANGED << session, root_key_handle, blobs, sigs, nops >>

(* `context_save(key_handle).or_else(...)?` *)
ContextSave(from, to, cleanup) ==
    /\ pc = from
    /\ \E ok \in BOOLEAN :
        /\ Issue("context_save", loc.key_handle, ok)
        /\ IF ok
           THEN /\ loc' = [loc EXCEPT !.key_context = slots[loc.key_handle]]
                /\ pc' = to
           ELSE /\ loc' = [loc EXCEPT !.e = "E_context_save"]
                /\ pc' = cleanup
    /\ UNCHANGED << slots, session, root_key_handle, result,
                    blobs, sigs, nops >>

-----------------------------------------------------------------------------
(* TransientObjectContext::create_rsa_signing_key *)

(* the size checks without the auth-size check of lines 142-144 *)
CreateParamsValid_NoAuthCheck(key_size, auth_size) ==
    ~(key_size # 1024 /\ key_size # 2048)

(* lines 142-147 *)
CreateParamsValid(key_size, auth_size) ==
    /\ ~(auth_size > MaxAuthSize)
    /\ ~(key_size # 1024 /\ key_size # 2048)

(* get_random requested without asserting the session attributes first *)
CreateFirst_NoAttrs(auth_size) == IF auth_size > 0 THEN "create_150" ELSE "create_154"

(* the random source asked also for an auth value of length zero *)
CreateFirst_AlwaysRandom(auth_size) == "create_149"

(* line 148: the first step after the size checks *)
CreateFirst(auth_size) == IF auth_size > 0 THEN "create_149" ELSE "create_154"

CreateRsaSigningKey(key_size, auth_size) ==
    IF CreateParamsValid(key_size, auth_size)
    THEN Enter(CreateFirst(auth_size),
               [LocInit EXCEPT !.op = "create", !.key_size = key_size,
                               !.auth_size = auth_size])
    ELSE Reject("create")

(* line 150: self.context.get_random(auth_size)? *)
Create_GetRandom ==
    /\ pc = "create_150"
    /\ \E ok \in BOOLEAN, r \in RandomFills :
        /\ Issue("get_random", ESYS_TR_NONE, ok)
        /\ IF ok
           THEN /\ loc' = [loc EXCEPT !.key_auth = KeyBytes(loc.auth_size, r, r)]
                /\ pc' = "create_154"
                /\ UNCHANGED result
           ELSE Return(Err("create", "E_get_random"))
    /\ UNCHANGED << slots, session, root_key_handle, blobs, sigs, nops >>

(* lines 155-162: self.context.create_key(root_key_handle, template, &key_auth, ..)? *)
Create_CreateKey ==
    /\ pc = "create_155"
    /\ \E ok \in BOOLEAN :
        /\ Issue("create_key", root_key_handle, ok)
        /\ IF ok
           THEN /\ loc' = [loc EXCEPT !.created =
                               Obj("key", "rsa", loc.key_size \div 8,
                                   NewModulus(loc.key_size), TRUE, loc.key_auth)]
                /\ pc' = "create_163"
                /\ UNCHANGED result
           ELSE Return(Err("create", "E_create_key"))
    /\ UNCHANGED << slots, session, root_key_handle, blobs, sigs, nops >>

(* line 164: self.context.load(root_key_handle, key_priv, key_pub)? *)
Create_Load == LoadStep("create", "create_164", "load", loc.created, "create_166")

(* lines 167-170 *)
Create_ContextSave == ContextSave("create_167", "create_171", "create_168")

(* lines 171-172: flush_context(key_handle)?; Ok((key_context, key_auth)) *)
Create_Flush ==
    /\ pc = "create_171"
    /\ \E ok \in BOOLEAN :
        /\ Issue("flush_context", loc.key_handle, ok)
        /\ IF ok
           THEN /\ slots' = Flush(loc.key_handle)
                /\ Return([NoResult EXCEPT !.op = "create", !.ok = TRUE,
                                           !.blob = loc.key_context,
                                           !.auth = loc.key_auth,
                                           !.key_size = loc.key_size,
                                           !.auth_size = loc.auth_size,
                                           !.loaded = loc.loaded])
                /\ blobs' = blobs \cup {Held(loc.key_context, << >>)}
           ELSE /\ Return(Err("create", "E_flush_context"))
                /\ UNCHANGED << slots, blobs >>
    /\ UNCHANGED << session, root_key_handle, sigs, nops >>

-----------------------------------------------------------------------------
(* TransientObjectContext::load_external_rsa_public_key *)

(* line 188 *)
PublicKeyLenValid(public_key) ==
    ~(Len(public_key) # 128 /\ Len(public_key) # 256)

(* lines 194-207: the template get_rsa_public(false, false, true, len * 8)
   with publicArea.unique = { size: len, buffer: pk_buffer } *)
ExternalPublic(public_key) ==
    Obj("key", "rsa", Len(public_key), PkBuffer(public_key), FALSE, << >>)

LoadExternalRsaPublicKey(public_key) ==
    IF PublicKeyLenValid(public_key)
    THEN Enter("import_209",
               [LocInit EXCEPT !.op = "import", !.public = ExternalPublic(public_key),
                               !.key = public_key])
    ELSE Reject("import")

(* line 210: self.context.load_external_public(&public, TPM2_RH_OWNER)? *)
Import_LoadExternalPublic ==
    LoadStep("import", "import_210", "load_external_public", loc.public, "import_212")

(* lines 213-216 *)
Import_ContextSave == ContextSave("import_213", "import_217", "import_214")

(* lines 217-219: flush_context(key_handle)?; Ok(key_context) *)
Import_Flush ==
    /\ pc = "import_217"
    /\ \E ok \in BOOLEAN :
        /\ Issue("flush_context", loc.key_handle, ok)
        /\ IF ok
           THEN /\ slots' = Flush(loc.key_handle)
                /\ Return([NoResult EXCEPT !.op = "import", !.ok = TRUE,
                                           !.blob = loc.key_context,
                                           !.key = loc.key,
                                           !.loaded = loc.loaded])
                /\ blobs' = blobs \cup {Held(loc.key_context, loc.key)}
           ELSE /\ Return(Err("import", "E_flush_context"))
                /\ UNCHANGED << slots, blobs >>
    /\ UNCHANGED << session, root_key_handle, sigs, nops >>

-----------------------------------------------------------------------------
(* TransientObjectContext::read_public_key *)

ReadPublicKey(held) ==
    Enter("read_231",
          [LocInit EXCEPT !.op = "read", !.key_context = held.ctx, !.arg = held])

(* line 232: self.context.context_load(key_context)? *)
Read_ContextLoad ==
    LoadStep("read", "read_232", "context_load", loc.key_context, "read_234")

(* line 239: PublicIdUnion::from_public(&key_pub_id) *)
FromPublic(public) ==
    IF public.alg \in {"rsa", "ecc"}
    THEN [ok |-> TRUE, variant |-> public.alg]
    ELSE [ok |-> FALSE, variant |-> "none"]

(* the whole buffer, not truncated *)
Truncate_None(buffer, size) == buffer

(* lines 242-243: buffer.to_vec() truncated to the declared size *)
Truncate(buffer, size) == SubSeq(buffer, 1, IF size < Len(buffer) THEN size ELSE Len(buffer))

(* lines 239-247: what follows a successful read_public: the next position,
   or the error returned at once *)
ReadAfterPublic(public) ==
    IF ~FromPublic(public).ok THEN "UnsupportedParam"
    ELSE IF FromPublic(public).variant = "rsa" THEN "read_248"
    ELSE "UnsupportedParam"

(* lines 235-247: read_public(key_handle).or_else(...)?, then the match *)
Read_ReadPublic ==
    /\ pc = "read_235"
    /\ \E ok \in BOOLEAN :
        /\ Issue("read_public", loc.key_handle, ok)
        /\ IF ~ok
           THEN /\ loc' = [loc EXCEPT !.e = "E_read_public"]
                /\ pc' = "read_236"
                /\ UNCHANGED result
           ELSE LET public == slots[loc.key_handle]
                    after == ReadAfterPublic(public)
                IN  IF after = "read_248"
                    THEN /\ loc' = [loc EXCEPT !.key = Truncate(public.buffer, public.size)]
                         /\ pc' = "read_248"
                         /\ UNCHANGED result
                    ELSE Return(Err("read", after))
    /\ UNCHANGED << slots, session, root_key_handle, blobs, sigs, nops >>

(* lines 248-250: flush_context(key_handle)?; Ok(key) *)
Read_Flush ==
    /\ pc = "read_248"
    /\ \E ok \in BOOLEAN :
        /\ Issue("flush_context", loc.key_handle, ok)
        /\ IF ok
           THEN /\ slots' = Flush(loc.key_handle)
                /\ Return([NoResult EXCEPT !.op = "read", !.ok = TRUE,
                                           !.key = loc.key,
                                           !.arg = loc.arg,
                                           !.loaded = loc.loaded])
           ELSE /\ Return(Err("read", "E_flush_context"))
                /\ UNCHANGED slots
    /\ UNCHANGED << session, root_key_handle, blobs, sigs, nops >>

-----------------------------------------------------------------------------
(* TransientObjectContext::sign *)

Sign(held, key_auth, digest) ==
    Enter("sign_267",
          [LocInit EXCEPT !.op = "sign", !.key_context = held.ctx, !.arg = held,
                          !.key_auth = key_auth, !.digest = digest])

(* line 268: self.context.context_load(key_context)? *)
Sign_ContextLoad ==
    LoadStep("sign", "sign_268", "context_load", loc.key_context, "sign_270")

(* the failure of set_handle_auth suppressed: on to the signing *)
Sign_SetHandleAuth_Suppress ==
    /\ pc = "sign_270"
    /\ \E ok \in BOOLEAN : Issue("set_handle_auth", loc.key_handle, ok)
    /\ pc' = "sign_285"
    /\ UNCHANGED << slots, session, root_key_handle, loc, result, blobs, sigs, nops >>

(* lines 269-274: set_handle_auth(key_handle, key_auth).or_else(...)? *)
Sign_SetHandleAuth ==
    /\ pc = "sign_270"
    /\ \E ok \in BOOLEAN :
        /\ Issue("set_handle_auth", loc.key_handle, ok)
        /\ IF ok
           THEN /\ pc' = "sign_285"
                /\ UNCHANGED loc
           ELSE /\ loc' = [loc EXCEPT !.e = "E_set_handle_auth"]
                /\ pc' = "sign_272"
    /\ UNCHANGED << slots, session, root_key_handle, result, blobs, sigs, nops >>

(* the name under which the module knows a loaded object *)
NameOf(obj) ==
    IF obj.buffer = << >> THEN << obj.alg, obj.size, 0, 0 >>
    ELSE << obj.alg, obj.size, obj.buffer[1], obj.buffer[obj.size] >>

(* the module signs with a key that has a private part, under its auth value *)
CanSign(obj, key_auth) == obj.priv /\ obj.auth = key_auth

(* lines 286-292: sign(key_handle, digest, scheme, &validation).or_else(...)? *)
Sign_Sign ==
    /\ pc = "sign_288"
    /\ \E ok \in IF CanSign(slots[loc.key_handle], loc.key_auth) THEN BOOLEAN ELSE {FALSE} :
        /\ Issue("sign", loc.key_handle, ok)
        /\ IF ok
           THEN /\ loc' = [loc EXCEPT !.out_sig =
                               [scheme |-> "rsassa",
                                signer |-> NameOf(slots[loc.key_handle]),
                                digest |-> loc.digest]]
                /\ pc' = "sign_293"
           ELSE /\ loc' = [loc EXCEPT !.e = "E_sign"]
                /\ pc' = "sign_290"
    /\ UNCHANGED << slots, session, root_key_handle, result, blobs, sigs, nops >>

(* lines 293-294: flush_context(key_handle)?; Ok(signature) *)
Sign_Flush ==
    /\ pc = "sign_293"
    /\ \E ok \in BOOLEAN :
        /\ Issue("flush_context", loc.key_handle, ok)
        /\ IF ok
           THEN /\ slots' = Flush(loc.key_handle)
                /\ Return([NoResult EXCEPT !.op = "sign", !.ok = TRUE,
                                           !.sig = loc.out_sig,
                                           !.arg = loc.arg,
                                           !.digest = loc.digest,
                                           !.loaded = loc.loaded])
                /\ sigs' = sigs \cup {loc.out_sig}
           ELSE /\ Return(Err("sign", "E_flush_context"))
                /\ UNCHANGED << slots, sigs >>
    /\ UNCHANGED << session, root_key_handle, blobs, nops >>

-----------------------------------------------------------------------------
(* TransientObjectContext::verify_signature *)

VerifySignature(held, digest, signature) ==
    Enter("verify_313",
          [LocInit EXCEPT !.op = "verify", !.key_context = held.ctx, !.arg = held,
                          !.digest = digest, !.signature = signature])

(* line 316: signature.try_into(), the conversion to TPMT_SIGNATURE *)
SignatureConverts(signature) == signature.scheme = "rsassa"

(* the conversion's failure ignored: on to the verification *)
VerifyAfterLoad_IgnoreFailure(signature) == "verify_320"

(* lines 316-320: where a failed conversion of the signature goes (the flush
   of line 317) and where a successful one goes *)
VerifyAfterLoad(signature) ==
    IF SignatureConverts(signature) THEN "verify_320" ELSE "verify_317"

(* lines 314-319: context_load(key_context)?, then the conversion of the
   signature, whose failure goes to the flush of line 317 *)
Verify_ContextLoad ==
    /\ pc = "verify_314"
    /\ \E ok \in BOOLEAN :
        /\ Issue("context_load", IF ok THEN nextHandle ELSE ESYS_TR_NONE, ok)
        /\ IF ok
           THEN /\ slots' = Load(nextHandle, loc.key_context)
                /\ loc' = [loc EXCEPT !.key_handle = nextHandle, !.loaded = nextHandle,
                                      !.e = IF SignatureConverts(loc.signature)
                                            THEN "none" ELSE "E_signature_try_into"]
                /\ pc' = VerifyAfterLoad(loc.signature)
                /\ UNCHANGED result
           ELSE /\ Return(Err("verify", "E_context_load"))
                /\ UNCHANGED slots
    /\ UNCHANGED << session, root_key_handle, blobs, sigs, nops >>

(* the module accepts a signature made by the loaded key over the digest *)
SignatureValid(obj, digest, signature) ==
    signature.signer = NameOf(obj) /\ signature.digest = digest

(* lines 321-327: verify_signature(key_handle, digest, &signature).or_else(...)? *)
Verify_VerifySignature ==
    /\ pc = "verify_323"
    /\ \E ok \in IF SignatureValid(slots[loc.key_handle], loc.digest, loc.signature)
                 THEN BOOLEAN ELSE {FALSE} :
        /\ Issue("verify_signature", loc.key_handle, ok)
        /\ IF ok
           THEN /\ pc' = "verify_328"
                /\ UNCHANGED loc
           ELSE /\ loc' = [loc EXCEPT !.e = "E_verify_signature"]
                /\ pc' = "verify_325"
    /\ UNCHANGED << slots, session, root_key_handle, result, blobs, sigs, nops >>

(* lines 328-329: flush_context(key_handle)?; Ok(verified.try_into()?) *)
Verify_Flush ==
    /\ pc = "verify_328"
    /\ \E ok \in BOOLEAN, converts \in BOOLEAN :
        /\ Issue("flush_context", loc.key_handle, ok)
        /\ IF ok
           THEN /\ slots' = Flush(loc.key_handle)
                /\ IF converts
                   THEN Return([NoResult EXCEPT !.op = "verify", !.ok = TRUE,
                                                !.ticket = TRUE,
                                                !.arg = loc.arg,
                                                !.digest = loc.digest,
                                                !.signature = loc.signature,
                                                !.loaded = loc.loaded])
                   ELSE Return(Err("verify", "E_ticket_try_into"))
           ELSE /\ Return(Err("verify", "E_flush_context"))
                /\ UNCHANGED slots
    /\ UNCHANGED << session, root_key_handle, blobs, sigs, nops >>

-----------------------------------------------------------------------------
Init ==
    /\ pc = "start"
    /\ slots = << >>
    /\ sessAttrs = {}
    /\ session = ESYS_TR_NONE
    /\ root_key_handle = ESYS_TR_NONE
    /\ loc = LocInit
    /\ calls = << >>
    /\ result = NoResult
    /\ blobs = EarlierBlobs
    /\ sigs = {}
    /\ nops = 0

Next ==
    \/ \E ks \in KeySizeInputs, as \in AuthSizeInputs, oa \in OwnerAuthInputs :
          New(ks, as, oa)
    \/ New_Context
    \/ New_GetRandom
    \/ New_SetHandleAuth
    \/ New_CreatePrimaryKey
    \/ New_StartAuthSession
    \/ New_SetSessions
    \/ New_FlushOldSession
    \/ \E ks \in KeySizeInputs, as \in AuthSizeInputs : CreateRsaSigningKey(ks, as)
    \/ SetSessionAttrs("create", "create_149", "create_150")
    \/ Create_GetRandom
    \/ SetSessionAttrs("create", "create_154", "create_155")
    \/ Create_CreateKey
    \/ SetSessionAttrs("create", "create_163", "create_164")
    \/ Create_Load
    \/ SetSessionAttrs("create", "create_166", "create_167")
    \/ Create_ContextSave
    \/ OrElseFlush("create", "create_168")
    \/ Create_Flush
    \/ \E pk \in PublicKeyInputs : LoadExternalRsaPublicKey(pk)
    \/ SetSessionAttrs("import", "import_209", "import_210")
    \/ Import_LoadExternalPublic
    \/ SetSessionAttrs("import", "import_212", "import_213")
    \/ Import_ContextSave
    \/ OrElseFlush("import", "import_214")
    \/ Import_Flush
    \/ \E held \in blobs : ReadPublicKey(held)
    \/ SetSessionAttrs("read", "read_231", "read_232")
    \/ Read_ContextLoad
    \/ SetSessionAttrs("read", "read_234", "read_235")
    \/ Read_ReadPublic
    \/ OrElseFlush("read", "read_236")
    \/ Read_Flush
    \/ \E held \in blobs, digest \in DigestInputs :
          \E key_auth \in {held.ctx.auth, WrongAuth} : Sign(held, key_auth, digest)
    \/ SetSessionAttrs("sign", "sign_267", "sign_268")
    \/ Sign_ContextLoad
    \/ Sign_SetHandleAuth
    \/ OrElseFlush("sign", "sign_272")
    \/ SetSessionAttrs("sign", "sign_285", "sign_288")
    \/ Sign_Sign
    \/ OrElseFlush("sign", "sign_290")
    \/ Sign_Flush
    \/ \E held \in blobs, digest \in DigestInputs :
          \E signature \in sigs \cup SignatureInputs : VerifySignature(held, digest, signature)
    \/ SetSessionAttrs("verify", "verify_313", "verify_314")
    \/ Verify_ContextLoad
    \/ OrElseFlush("verify", "verify_317")
    \/ SetSessionAttrs("verify", "verify_320", "verify_323")
    \/ Verify_VerifySignature
    \/ OrElseFlush("verify", "verify_325")
    \/ Verify_Flush

Spec == Init /\ [][Next]_vars

-----------------------------------------------------------------------------
(* Properties *)

PublicOps == {"create", "import", "read", "sign", "verify"}

(* the operation running, or the one that returned last *)
CurrentOp == IF pc = "idle" THEN result.op ELSE loc.op

(* an operation has returned to the caller *)
Returned(op) == pc = "idle" /\ result.op = op

(* the positions in calls of the flushes of handle h *)
FlushesOf(h) ==
    { i \in 1..Len(calls) : calls[i].cmd = "flush_context" /\ calls[i].h = h }

AllCallsOk == \A i \in 1..Len(calls) : calls[i].ok

(* C1: after any sequence of create, import, read, sign and verify calls,
   whatever fails, the number of occupied volatile slots is what it was after
   construction: the root key and the session, and nothing else. *)
C1_SlotCountPreserved ==
    pc = "idle" => Occupied = {root_key_handle, session}

(* C2: once an operation has loaded the child handle, every failure of that
   operation flushes the handle before the error is returned. *)
C2_FlushOnEveryFailureAfterLoad ==
    (pc = "idle" /\ result.op \in PublicOps /\ ~result.ok
        /\ result.loaded # ESYS_TR_NONE)
    => FlushesOf(result.loaded) # {}

(* the "perform operation" step of each public operation *)
PerformCmds(op) ==
    CASE op \in {"create", "import"} -> {"context_save"}
      [] op = "read" -> {"read_public"}
      [] op = "sign" -> {"set_handle_auth", "sign"}
      [] op = "verify" -> {"verify_signature"}
      [] OTHER -> {}

PerformFailedAt(i) == calls[i].cmd \in PerformCmds(result.op) /\ ~calls[i].ok

(* C3: when the driver fails at the perform-operation step after a successful
   load, flush_context is called on the loaded handle exactly once, after the
   failed step, and the operation returns an error. *)
C3_FlushExactlyOnceOnPerformFailure ==
    pc = "idle" =>
        \A i \in 1..Len(calls) :
            PerformFailedAt(i) =>
                /\ ~result.ok
                /\ result.loaded # ESYS_TR_NONE
                /\ Cardinality(FlushesOf(result.loaded)) = 1
                /\ \A j \in FlushesOf(result.loaded) : j > i

C3_Witness ==
    /\ Returned("sign")
    /\ \E i \in 1..Len(calls) : calls[i].cmd = "sign" /\ PerformFailedAt(i)
    /\ Cardinality(FlushesOf(result.loaded)) = 1

(* C4: read_public_key of an object that is not RSA flushes the loaded slot
   and then returns the unsupported-parameter error: the slot is not left
   occupied. *)
C4_NonRsaFlushedBeforeError ==
    (Returned("read") /\ result.err = "UnsupportedParam")
    => (FlushesOf(result.loaded) # {} /\ result.loaded \notin Occupied)

(* an operation refused by its size checks: the validation error, no driver
   call, the slot table and the session as they were *)
RejectedUntouched ==
    /\ pc' = "idle"
    /\ ~result'.ok
    /\ result'.err = "WrongParamSize"
    /\ calls' = << >>
    /\ slots' = slots
    /\ sessAttrs' = sessAttrs

(* C5: create_rsa_signing_key with auth_size > 32 or a key size other than
   1024 and 2048, and load_external_rsa_public_key with a length other than
   128 and 256, return WrongParamSize without any driver call and leave the
   slot table unchanged. *)
C5_SizeChecksBeforeAnyCall ==
    [][ /\ \A ks \in KeySizeInputs, as \in AuthSizeInputs :
              ((as > 32 \/ ks \notin {1024, 2048}) /\ CreateRsaSigningKey(ks, as))
              => RejectedUntouched
        /\ \A pk \in PublicKeyInputs :
              (Len(pk) \notin {128, 256} /\ LoadExternalRsaPublicKey(pk))
              => RejectedUntouched ]_vars

C5_Witness ==
    /\ Returned("import")
    /\ result.err = "WrongParamSize"
    /\ calls = << >>
    /\ Occupied = {root_key_handle, session}

(* C6: construction with root_key_auth_size > 32 or a root key size other than
   1024 and 2048 fails with WrongParamSize before the driver is created and
   before any module call. *)
C6_NewSizeChecksBeforeDriver ==
    [][ \A ks \in KeySizeInputs, as \in AuthSizeInputs, oa \in OwnerAuthInputs :
            ((as > 32 \/ ks \notin {1024, 2048}) /\ New(ks, as, oa))
            => /\ pc' = "failed"
               /\ result'.err = "WrongParamSize"
               /\ calls' = << >>
               /\ slots' = << >> ]_vars

C6_Witness ==
    /\ pc = "failed"
    /\ result.err = "WrongParamSize"
    /\ calls = << >>
    /\ Occupied = {}

(* C7: with valid sizes construction fails only if a driver call fails, and
   when it returns the occupied slots are exactly the root key and the newly
   started session; the driver's default session has been flushed. *)
C7_NewLeavesRootKeyAndSession ==
    /\ (pc = "failed" /\ result.err # "WrongParamSize") => ~AllCallsOk
    /\ Returned("new") =>
        /\ result.ok
        /\ AllCallsOk
        /\ root_key_handle # session
        /\ Occupied = {root_key_handle, session}
        /\ slots[root_key_handle].kind = "primary"
        /\ slots[session].kind = "session"
        /\ calls[1].cmd = "Context::new"
        /\ calls[Len(calls)].cmd = "flush_context"
        /\ calls[Len(calls)].h \notin Occupied

C7_Witness ==
    /\ Returned("new")
    /\ slots[root_key_handle].size = 128
    /\ Cardinality(Occupied) = 2

(* C8: when a step fails after the load and the handle is flushed on the way
   out, the error returned is the original one if the flush succeeds and the
   flush failure if the flush fails. *)
C8_FlushFailureReplacesError ==
    (pc = "idle" /\ result.op \in PublicOps /\ Len(calls) >= 2
        /\ calls[Len(calls)].cmd = "flush_context")
    => LET last == calls[Len(calls)]
           prev == calls[Len(calls) - 1]
       IN  /\ ~prev.ok =>
                 result.err = IF last.ok THEN "E_" \o prev.cmd ELSE "E_flush_context"
           /\ (prev.ok /\ prev.cmd = "context_load" /\ result.op = "verify") =>
                 result.err = IF last.ok THEN "E_signature_try_into"
                              ELSE "E_flush_context"

C8_Witness ==
    /\ Returned("read")
    /\ Len(calls) >= 2
    /\ calls[Len(calls)].cmd = "flush_context" /\ ~calls[Len(calls)].ok
    /\ calls[Len(calls) - 1].cmd = "read_public" /\ ~calls[Len(calls) - 1].ok
    /\ result.err = "E_flush_context"

(* the module calls of each public operation that carry sensitive parameters *)
SensitiveCmds(op) ==
    CASE op = "create" -> {"get_random", "create_key", "load"}
      [] op = "import" -> {"load_external_public"}
      [] op = "read" -> {"context_load", "read_public"}
      [] op = "sign" -> {"sign"}
      [] op = "verify" -> {"verify_signature"}
      [] OTHER -> {}

(* C9: against a driver that resets the session flags after every module
   command, each sensitive module call is issued with the flags
   {encrypt, decrypt} set, the call before it being a successful
   set_session_attrs. *)
C9_AttrsAssertedBeforeSensitiveCall ==
    \A i \in 1..Len(calls) :
        calls[i].cmd \in SensitiveCmds(CurrentOp) =>
            /\ calls[i].attrs = {"encrypt", "decrypt"}
            /\ i > 1
            /\ calls[i - 1].cmd = "set_session_attr"
            /\ calls[i - 1].ok

C9_Witness ==
    /\ CurrentOp = "create"
    /\ \E i \in 1..Len(calls) :
          /\ calls[i].cmd = "get_random" /\ calls[i].ok
          /\ calls[i].attrs = {"encrypt", "decrypt"}

(* C10: load_external_rsa_public_key(bytes) followed by read_public_key of the
   returned blob returns exactly bytes, when no driver call fails. *)
C10_ImportReadRoundTrip ==
    (Returned("read") /\ result.arg.key # << >>) =>
        /\ Len(result.arg.key) \in {128, 256}
        /\ AllCallsOk => result.ok
        /\ result.ok => result.key = result.arg.key

C10_Witness ==
    /\ Returned("read")
    /\ result.ok
    /\ result.arg.key = KeyBytes(128, 7, 0)
    /\ result.key = KeyBytes(128, 7, 0)

(* the positions in calls of the command cmd *)
CallsOf(cmd) == { i \in 1..Len(calls) : calls[i].cmd = cmd }

(* C11: a successful create_rsa_signing_key returns a blob and an auth value
   of the requested length, the auth value given to create_key; with
   auth_size 0 the random source is not called and the auth value is empty;
   with valid sizes the call fails only if a driver call fails. *)
C11_CreateReturnsRequestedAuth ==
    Returned("create") =>
        /\ (AllCallsOk /\ result.err # "WrongParamSize") => result.ok
        /\ result.ok =>
            /\ result.key_size \in {1024, 2048}
            /\ result.auth_size \in 0..32
            /\ Len(result.auth) = result.auth_size
            /\ result.blob.auth = result.auth
            /\ result.blob.size * 8 = result.key_size
            /\ result.auth_size = 0 => (result.auth = << >> /\ CallsOf("get_random") = {})
            /\ result.auth_size > 0 => Cardinality(CallsOf("get_random")) = 1

C11_Witness ==
    /\ Returned("create")
    /\ result.ok
    /\ result.key_size = 1024
    /\ result.auth_size = 0
    /\ result.auth = << >>
    /\ CallsOf("get_random") = {}

(* the errors the driver reports in verify_signature *)
VerifyDriverErrors ==
    {"E_set_session_attr", "E_context_load", "E_verify_signature", "E_flush_context"}

(* the signature given to verify_signature is one over the given digest by
   the key of the given blob *)
SignatureMatches ==
    /\ result.signature.signer = NameOf(result.arg.ctx)
    /\ result.signature.digest = result.digest

(* C12: verify_signature of a signature that sign made with the same key over
   the same digest returns a ticket when no driver call and no conversion
   fails; with another digest or another signature it returns an error the
   driver reports, never a ticket; once the verification has been requested
   the loaded handle is flushed exactly once and the slot is free when that
   flush succeeds. *)
C12_SignThenVerify ==
    Returned("verify") =>
        /\ (result.signature \in sigs /\ SignatureMatches /\ AllCallsOk
                /\ result.err # "E_ticket_try_into")
           => (result.ok /\ result.ticket)
        /\ (SignatureConverts(result.signature) /\ ~SignatureMatches)
           => (~result.ok /\ result.err \in VerifyDriverErrors)
        /\ CallsOf("verify_signature") # {}
           => /\ Cardinality(FlushesOf(result.loaded)) = 1
              /\ calls[Len(calls)].ok => result.loaded \notin Occupied

C12_Witness ==
    /\ Returned("verify")
    /\ result.ok /\ result.ticket
    /\ result.signature \in sigs
    /\ SignatureMatches
    /\ result.loaded \notin Occupied

(* C13: in verify_signature a signature that does not convert is never given
   to the driver: the loaded handle is flushed and the conversion error
   returned; a ticket that does not convert is reported after the flush of
   the handle; the slot is free in both cases. *)
C13_ConversionFailuresFlush ==
    Returned("verify") =>
        /\ (~SignatureConverts(result.signature) /\ result.loaded # ESYS_TR_NONE)
           => /\ CallsOf("verify_signature") = {}
              /\ Cardinality(FlushesOf(result.loaded)) = 1
              /\ result.err = IF calls[Len(calls)].ok THEN "E_signature_try_into"
                              ELSE "E_flush_context"
        /\ result.err = "E_signature_try_into"
           => /\ ~SignatureConverts(result.signature)
              /\ calls[Len(calls)].cmd = "flush_context"
              /\ calls[Len(calls)].h = result.loaded
              /\ calls[Len(calls)].ok
              /\ result.loaded \notin Occupied
        /\ result.err = "E_ticket_try_into"
           => /\ Len(calls) >= 2
              /\ calls[Len(calls)].cmd = "flush_context"
              /\ calls[Len(calls)].h = result.loaded
              /\ calls[Len(calls)].ok
              /\ calls[Len(calls) - 1].cmd = "verify_signature"
              /\ calls[Len(calls) - 1].ok
              /\ result.loaded \notin Occupied

C13_Witness ==
    /\ Returned("verify")
    /\ result.err = "E_signature_try_into"
    /\ CallsOf("verify_signature") = {}
    /\ result.loaded # ESYS_TR_NONE
    /\ result.loaded \notin Occupied

(* C14: no error is retried or suppressed: a failed driver call is the last
   call of the operation but for the one flush that cleans up after it, no
   command other than the attribute assertion is issued twice, the attribute
   assertion is never repeated in a row, and an operation in which a driver
   call or a conversion failed does not return a success. *)
C14_NoRetryNoSuppress ==
    /\ \A i \in 1..Len(calls) :
          /\ ~calls[i].ok =>
                \/ i = Len(calls)
                \/ /\ i = Len(calls) - 1
                   /\ calls[i].cmd # "flush_context"
                   /\ calls[Len(calls)].cmd = "flush_context"
          /\ calls[i].cmd # "set_session_attr"
                => Cardinality(CallsOf(calls[i].cmd)) = 1
          /\ (i > 1 /\ calls[i].cmd = "set_session_attr")
                => calls[i - 1].cmd # "set_session_attr"
    /\ (pc = "idle" /\ ~AllCallsOk) => ~result.ok
    /\ (Returned("verify") /\ ~SignatureConverts(result.signature)) => ~result.ok
    /\ pc = "failed" => ~result.ok

C14_Witness ==
    /\ Returned("sign")
    /\ ~result.ok
    /\ Len(calls) = 4
    /\ calls[3].cmd = "set_handle_auth" /\ ~calls[3].ok
    /\ calls[4].cmd = "flush_context" /\ calls[4].ok
    /\ result.err = "E_set_handle_auth"

(* the positions of construction *)
NewPcs ==
    {"start", "new_84", "new_86", "new_91", "new_94", "new_103", "new_112",
     "new_114", "failed"}

(* the context has been constructed *)
Constructed == pc \notin NewPcs

(* C15: after construction no public operation changes the context's root-key
   handle or its active session, and none flushes either of them: both stay
   occupied; between operations the context holds no other object handle. *)
C15_RootKeyAndSessionKept ==
    /\ [](Constructed =>
            /\ root_key_handle \in Occupied
            /\ slots[root_key_handle].kind = "primary"
            /\ session \in Occupied
            /\ slots[session].kind = "session"
            /\ CurrentOp \in PublicOps =>
                  (FlushesOf(root_key_handle) = {} /\ FlushesOf(session) = {})
            /\ pc = "idle" => (loc.key_handle = ESYS_TR_NONE /\ loc.loaded = ESYS_TR_NONE))
    /\ [][Constructed => (root_key_handle' = root_key_handle /\ session' = session)]_vars

C15_Witness ==
    /\ Returned("sign")
    /\ ~result.ok
    /\ result.loaded # ESYS_TR_NONE
    /\ FlushesOf(result.loaded) # {}
    /\ root_key_handle \in Occupied
    /\ session \in Occupied

(* construction is running or has just ended *)
InNew == loc.op = "new" \/ result.op = "new"

(* C17: during construction the new session is started before the old one is
   flushed and is made the active session before that flush is issued; the
   active session is never a flushed handle; a context is returned only if
   the flush of the old session succeeded. *)
C17_SessionSwitchedBeforeFlush ==
    /\ session # ESYS_TR_NONE =>
          (session \in Occupied /\ slots[session].kind = "session")
    /\ InNew =>
          \A i \in CallsOf("flush_context") :
              /\ \E j \in CallsOf("start_auth_session") : j < i /\ calls[j].ok
              /\ calls[i].h # session
    /\ pc = "new_114" =>
          (session = loc.new_session /\ loc.old_session # session)
    /\ Returned("new") =>
          (calls[Len(calls)].cmd = "flush_context" /\ calls[Len(calls)].ok)

C17_Witness ==
    /\ pc = "failed"
    /\ CallsOf("flush_context") # {}
    /\ ~calls[Len(calls)].ok
    /\ session \in Occupied
    /\ calls[Len(calls)].h \in Occupied
    /\ calls[Len(calls)].h # session

(* the handles occupied other than the root key and the session *)
ChildHandles == Occupied \ {root_key_handle, session}

(* C18: at every point inside a public operation at most one child handle is
   occupied in addition to the root key and the session. *)
C18_AtMostOneChildOccupied ==
    Constructed => Cardinality(ChildHandles) <= 1

(* inside a public operation the occupancy is at most what it was when the
   operation was called, plus one *)
PeakAtMostOneAbovePreCall ==
    (Constructed /\ pc # "idle") => Cardinality(Occupied) <= loc.pre + 1

(* the child handle of the operation running, or of the one that returned last *)
CurrentLoaded == IF pc = "idle" THEN result.loaded ELSE loc.loaded

(* C19: in every public operation the flush of the child handle is the last
   driver call that names it, and the handle is given to flush_context at most
   once, also when that flush fails. *)
C19_FlushIsLastUseOfChild ==
    (CurrentOp \in PublicOps /\ CurrentLoaded # ESYS_TR_NONE) =>
        /\ Cardinality(FlushesOf(CurrentLoaded)) <= 1
        /\ \A i \in FlushesOf(CurrentLoaded) :
              \A j \in 1..Len(calls) : j > i => calls[j].h # CurrentLoaded

C19_Witness ==
    /\ Returned("create")
    /\ ~result.ok
    /\ result.err = "E_flush_context"
    /\ Cardinality(FlushesOf(result.loaded)) = 1
    /\ calls[Len(calls) - 1].cmd = "context_save" /\ ~calls[Len(calls) - 1].ok

====
